---- MODULE Spec2Model ----
(***************************************************************************)
(* The request-routing and handler layer of addrservice (app.py): the      *)
(* route table, the request handlers, the error envelope and the access    *)
(* logger, composed around the AddressBookService collaborator.            *)
(*                                                                         *)
(* A path is the sequence of its tokens: "/" and the segments between the  *)
(* slashes ("/addressbook/a1/" is <<"/", "addressbook", "/", "a1", "/">>). *)
(* A request body is the string of its bytes.  A JSON object (a Python     *)
(* dict) is a record; a response body is <<>> when empty and <<d>> when it *)
(* is the JSON document of the dict d.                                     *)
(***************************************************************************)
EXTENDS Integers, Sequences, FiniteSets, TLC

VARIABLES
    addrs,       \* the collaborator's collection: identifier -> entry
    ready,       \* the collaborator's readiness
    clock,       \* milliseconds since the process started
    debug,       \* the debug flag make_addrservice_app was called with
    req,         \* the last request: method, path, body
    resp,        \* the response to it: status, reason, location, body
    log,         \* the log lines the last request emitted
    calls,       \* the collaborator operations the last request invoked,
                 \* each with what it returned
    addrsBefore, \* history: the collection as the last request found it
    posted,      \* history: identifier -> body it was created from by POST,
                 \*          until a PUT or DELETE of that identifier
    deleted,     \* history: identifiers deleted with 204 and not recreated
    lastUptime,  \* history: the uptime the latest /healthz response held
    prevUptime   \* history: the uptime the /healthz response before it held

vars == <<addrs, ready, clock, debug, req, resp, log, calls, addrsBefore,
          posted, deleted, lastUptime, prevUptime>>

----------------------------------------------------------------------------
(* Bounds of the model *)

MaxUptime == 2

----------------------------------------------------------------------------
(* Inputs *)

EmptyDict == [k \in {} |-> ""]

\* The identifiers the collaborator hands out.
Ids == {"a1", "Z-7"}

\* An identifier-shaped segment the collaborator never hands out.
UnknownId == "zz9"

\* The character classes of each segment a request path is built from.
SegmentChars ==
    [s \in Ids \cup {UnknownId, "healthz", "readiness", "addressbook",
                     "nonexistent", "a_b"} |->
        CASE s = "a1"  -> {"lower", "digit"}
          [] s = "Z-7" -> {"upper", "dash", "digit"}
          [] s = "zz9" -> {"lower", "digit"}
          [] s = "a_b" -> {"lower", "underscore"}
          [] OTHER     -> {"lower"}]

Methods == {"GET", "POST", "PUT", "DELETE", "PATCH"}

EntryPath(id) == <<"/", "addressbook", "/", id>>

\* The paths of the address-book routes.
BookPaths ==
    {<<"/", "addressbook">>, EntryPath("a1"), EntryPath("Z-7"),
     EntryPath("a1") \o <<"/">>, EntryPath(UnknownId)}

\* The paths of the health routes.
HealthPaths ==
    {<<"/", "healthz">>, <<"/", "healthz", "/">>,
     <<"/", "readiness">>, <<"/", "readiness", "/">>}

\* Paths of every route, and paths no route matches.
AllPaths ==
    {<<"/", "healthz">>, <<"/", "readiness", "/">>,
     <<"/", "addressbook", "/">>, EntryPath("a1"), EntryPath(UnknownId),
     <<"/", "nonexistent">>, EntryPath("a_b")}

B_BADUTF8 == "\\xff"
B_EMPTY   == ""
B_BADJSON == "{\"name\":"
B_LIST    == "[1]"
B_NOFIELD == "{}"
B_ANN     == "{\"name\":\"Ann\"}"
B_ANN_WS  == "{ \"name\" : \"Ann\" }"
B_BOB     == "{\"name\":\"Bob\",\"email\":\"b@x.com\"}"

Bodies == {B_BADUTF8, B_EMPTY, B_BADJSON, B_LIST, B_NOFIELD, B_ANN, B_ANN_WS,
           B_BOB}

\* The bodies sent where every route is exercised.
FewBodies == {B_BADUTF8, B_EMPTY, B_LIST, B_ANN}

NoException == "none"

----------------------------------------------------------------------------
(* Python: bytes.decode, json.loads and the exception classes *)

\* The classes an exception of class exc is an instance of.
ExceptionBases(exc) ==
    CASE exc = "JSONDecodeError"    -> {"JSONDecodeError", "ValueError"}
      [] exc = "UnicodeDecodeError" -> {"UnicodeDecodeError", "UnicodeError",
                                        "ValueError"}
      [] exc = "KeyError"           -> {"KeyError", "LookupError"}
      [] OTHER                      -> {exc}

\* self.request.body.decode('utf-8')
decode(body) ==
    IF body = B_BADUTF8
    THEN [exc |-> "UnicodeDecodeError",
          msg |-> "'utf-8' codec can't decode byte 0xff in position 0: invalid start byte",
          text |-> ""]
    ELSE [exc |-> NoException, msg |-> "", text |-> body]

\* json.loads(text): the Python value, with its type, or JSONDecodeError.
json_loads(text) ==
    CASE text \in {B_EMPTY, B_BADJSON} ->
            [exc |-> "JSONDecodeError", msg |-> "Expecting value",
             type |-> "", value |-> EmptyDict]
      [] text = B_LIST ->
            [exc |-> NoException, msg |-> "", type |-> "list",
             value |-> EmptyDict]
      [] text = B_NOFIELD ->
            [exc |-> NoException, msg |-> "", type |-> "dict",
             value |-> EmptyDict]
      [] text \in {B_ANN, B_ANN_WS} ->
            [exc |-> NoException, msg |-> "", type |-> "dict",
             value |-> [name |-> "Ann"]]
      [] text = B_BOB ->
            [exc |-> NoException, msg |-> "", type |-> "dict",
             value |-> [name |-> "Bob", email |-> "b@x.com"]]

\* json.loads(self.request.body.decode('utf-8'))
parse_body(body) ==
    LET d == decode(body)
    IN  IF d.exc # NoException
        THEN [exc |-> d.exc, msg |-> d.msg, type |-> "", value |-> EmptyDict]
        ELSE json_loads(d.text)

----------------------------------------------------------------------------
(* The collaborator, AddressBookService, by its contract *)

\* What the contract leaves open: whether put_address validates the entry
\* before it looks the identifier up.
ServiceImpls == [validateFirst : BOOLEAN]

valid_entry(v) == v.type = "dict" /\ "name" \in DOMAIN v.value

\* A value of the wrong top-level type is a type error, an object that is
\* no address entry a value error.
invalid_entry_error(v) ==
    IF v.type # "dict"
    THEN [exc |-> "TypeError", msg |-> "entry is not an object"]
    ELSE [exc |-> "ValueError", msg |-> "invalid address entry"]

uptime_millis == clock

status == [ready |-> ready, name |-> "addrservice"]

get_all_addresses == addrs

post_address(v, newid) ==
    IF ~valid_entry(v)
    THEN [exc |-> invalid_entry_error(v).exc,
          msg |-> invalid_entry_error(v).msg,
          ret |-> "", addrs |-> addrs]
    ELSE [exc |-> NoException, msg |-> "", ret |-> newid,
          addrs |-> (newid :> v.value) @@ addrs]

get_address(id) ==
    IF id \notin DOMAIN addrs
    THEN [exc |-> "KeyError", msg |-> "'unknown address'", ret |-> EmptyDict]
    ELSE [exc |-> NoException, msg |-> "", ret |-> addrs[id]]

put_address(id, v, impl) ==
    LET absent  == id \notin DOMAIN addrs
        invalid == ~valid_entry(v)
        keyErr  == [exc |-> "KeyError", msg |-> "'unknown address'",
                    addrs |-> addrs]
        valErr  == [exc |-> invalid_entry_error(v).exc,
                    msg |-> invalid_entry_error(v).msg,
                    addrs |-> addrs]
    IN  IF absent /\ invalid
        THEN (IF impl.validateFirst THEN valErr ELSE keyErr)
        ELSE IF absent THEN keyErr
        ELSE IF invalid THEN valErr
        ELSE [exc |-> NoException, msg |-> "",
              addrs |-> [addrs EXCEPT ![id] = v.value]]

delete_address(id) ==
    IF id \notin DOMAIN addrs
    THEN [exc |-> "KeyError", msg |-> "'unknown address'", addrs |-> addrs]
    ELSE [exc |-> NoException, msg |-> "",
          addrs |-> [k \in DOMAIN addrs \ {id} |-> addrs[k]]]

----------------------------------------------------------------------------
(* The route table of make_addrservice_app *)

\* The character class [a-zA-Z0-9-]
IdCharClass == {"lower", "upper", "digit", "dash"}

\* path without one trailing "/" token after its first token: the /? of a
\* pattern.
StripOptionalSlash(path) ==
    IF Len(path) > 1 /\ path[Len(path)] = "/"
    THEN SubSeq(path, 1, Len(path) - 1)
    ELSE path

\* r'/healthz/?'
HEALTHZ_REGEX(path) == StripOptionalSlash(path) = <<"/", "healthz">>

\* r'/readiness/?'
READINESS_REGEX(path) == StripOptionalSlash(path) = <<"/", "readiness">>

\* r'/addressbook/?'
ADDRESSBOOK_REGEX(path) == StripOptionalSlash(path) = <<"/", "addressbook">>

\* r'/addressbook/(?P<id>[a-zA-Z0-9-]+)/?'
ADDRESSBOOK_ENTRY_REGEX(path) ==
    LET p == StripOptionalSlash(path)
    IN  /\ Len(p) = 4
        /\ SubSeq(p, 1, 3) = <<"/", "addressbook", "/">>
        /\ p[4] # "/"
        /\ SegmentChars[p[4]] # {}
        /\ SegmentChars[p[4]] \subseteq IdCharClass

\* The named group id of a path ADDRESSBOOK_ENTRY_REGEX matches.
PathId(path) == StripOptionalSlash(path)[4]

\* Mutant: the format string without its {id} field.
URI_FORMAT_STR_WithoutId(id) == <<"/", "addressbook", "/">>

\* '/addressbook/{id}'.format(id=id)
ADDRESSBOOK_ENTRY_URI_FORMAT_STR(id) == <<"/", "addressbook", "/", id>>

\* The handler class the application dispatches path to: the first rule
\* that matches, else default_handler_class.
Route(path) ==
    IF HEALTHZ_REGEX(path) THEN "LivenessRequestHandler"
    ELSE IF READINESS_REGEX(path) THEN "ReadinessRequestHandler"
    ELSE IF ADDRESSBOOK_REGEX(path) THEN "AddressBookRequestHandler"
    ELSE IF ADDRESSBOOK_ENTRY_REGEX(path) THEN "AddressBookEntryRequestHandler"
    ELSE "DefaultRequestHandler"

\* The HTTP methods each handler class defines.
HandlerMethods(handler) ==
    CASE handler = "LivenessRequestHandler"         -> {"GET"}
      [] handler = "ReadinessRequestHandler"        -> {"GET"}
      [] handler = "AddressBookRequestHandler"      -> {"GET", "POST"}
      [] handler = "AddressBookEntryRequestHandler" -> {"GET", "PUT", "DELETE"}
      [] OTHER                                      -> {}

----------------------------------------------------------------------------
(* Responses *)

NoResponse == [status |-> 0, reason |-> "", location |-> <<>>, body |-> <<>>]

\* set_status(status_code): the reason is the standard phrase of the code.
StandardReason(status_code) ==
    CASE status_code = 200 -> "OK"
      [] status_code = 201 -> "Created"
      [] status_code = 204 -> "No Content"
      [] status_code = 405 -> "Method Not Allowed"
      [] status_code = 503 -> "Service Unavailable"
      [] OTHER             -> "Unknown"

\* Mutant: the traceback is sent whatever serve_traceback is.
write_error_AlwaysTrace(r, status_code, reason, exc_info) ==
    IF exc_info
    THEN [method |-> r.method, uri |-> r.path, code |-> status_code,
          message |-> reason, trace |-> "Traceback (most recent call last)"]
    ELSE [method |-> r.method, uri |-> r.path, code |-> status_code,
          message |-> reason]

\* BaseRequestHandler.write_error: the body it finishes the response with.
write_error(r, status_code, reason, exc_info) ==
    IF debug /\ exc_info
    THEN [method |-> r.method, uri |-> r.path, code |-> status_code,
          message |-> reason, trace |-> "Traceback (most recent call last)"]
    ELSE [method |-> r.method, uri |-> r.path, code |-> status_code,
          message |-> reason]

\* raise tornado.web.HTTPError(status_code, reason=reason): the framework
\* sets the status and the reason and calls write_error with the exception.
HTTPError(r, status_code, reason) ==
    [status |-> status_code, reason |-> reason, location |-> <<>>,
     body |-> <<write_error(r, status_code, reason, TRUE)>>]

\* set_status(status_code); finish(chunk)
Finish(status_code, location, body) ==
    [status |-> status_code, reason |-> StandardReason(status_code),
     location |-> location, body |-> body]

----------------------------------------------------------------------------
(* The request handlers.  Each yields the response, the collaborator's     *)
(* collection after the request, and the collaborator operations invoked.  *)

\* An exception no except clause of the handler catches: the framework
\* answers 500 through write_error.
Uncaught(r) == HTTPError(r, 500, "Internal Server Error")

Caught(e, classes) == ExceptionBases(e.exc) \cap classes # {}

\* One awaited operation of self.service, and what it returned (<<>> when
\* it returns nothing or raises).
Call(op, ret) == [op |-> op, ret |-> ret]

\* Mutant: the uptime is reported in seconds.
Liveness_get_Seconds(r) ==
    [resp  |-> Finish(200, <<>>, <<[uptime |-> uptime_millis \div 1000]>>),
     addrs |-> addrs,
     calls |-> <<Call("uptime_millis", <<uptime_millis>>)>>]

\* LivenessRequestHandler.get
Liveness_get(r) ==
    [resp  |-> Finish(200, <<>>, <<[uptime |-> uptime_millis]>>),
     addrs |-> addrs,
     calls |-> <<Call("uptime_millis", <<uptime_millis>>)>>]

\* Mutant: the status does not follow the snapshot.
Readiness_get_Always200(r) ==
    LET info == status
    IN  [resp  |-> Finish(200, <<>>, <<info>>),
         addrs |-> addrs,
         calls |-> <<Call("status", <<info>>)>>]

\* ReadinessRequestHandler.get
Readiness_get(r) ==
    LET info == status
    IN  [resp  |-> Finish(IF info.ready THEN 200 ELSE 503, <<>>, <<info>>),
         addrs |-> addrs,
         calls |-> <<Call("status", <<info>>)>>]

\* AddressBookRequestHandler.get
AddressBook_get(r) ==
    [resp  |-> Finish(200, <<>>, <<get_all_addresses>>),
     addrs |-> addrs,
     calls |-> <<Call("get_all_addresses", <<get_all_addresses>>)>>]

\* The except clauses of AddressBookRequestHandler.post
post_except(r, e) ==
    IF Caught(e, {"JSONDecodeError", "TypeError"})
    THEN HTTPError(r, 400, "Invalid JSON body")
    ELSE IF Caught(e, {"ValueError"})
    THEN HTTPError(r, 400, e.msg)
    ELSE Uncaught(r)

\* AddressBookRequestHandler.post
AddressBook_post(r, newid) ==
    LET addr == parse_body(r.body)
        res  == post_address(addr, newid)
    IN  IF addr.exc # NoException
        THEN [resp |-> post_except(r, addr), addrs |-> addrs, calls |-> <<>>]
        ELSE IF res.exc # NoException
        THEN [resp |-> post_except(r, res), addrs |-> addrs,
              calls |-> <<Call("post_address", <<>>)>>]
        ELSE [resp  |-> Finish(201, ADDRESSBOOK_ENTRY_URI_FORMAT_STR(res.ret),
                               <<>>),
              addrs |-> res.addrs,
              calls |-> <<Call("post_address", <<res.ret>>)>>]

\* Mutant: a missing key is answered as an invalid value is.
get_except_KeyErrorIs400(r, e) ==
    IF Caught(e, {"KeyError"})
    THEN HTTPError(r, 400, e.msg)
    ELSE Uncaught(r)

\* The except clause of AddressBookEntryRequestHandler.get
get_except(r, e) ==
    IF Caught(e, {"KeyError"})
    THEN HTTPError(r, 404, e.msg)
    ELSE Uncaught(r)

\* AddressBookEntryRequestHandler.get
Entry_get(r) ==
    LET res == get_address(PathId(r.path))
    IN  [resp  |-> IF res.exc # NoException
                   THEN get_except(r, res)
                   ELSE Finish(200, <<>>, <<res.ret>>),
         addrs |-> addrs,
         calls |-> <<Call("get_address",
                          IF res.exc # NoException THEN <<>>
                          ELSE <<res.ret>>)>>]

\* Mutant: the except KeyError clause is missing.
put_except_NoKeyError(r, e) ==
    IF Caught(e, {"JSONDecodeError", "TypeError"})
    THEN HTTPError(r, 400, "Invalid JSON body")
    ELSE IF Caught(e, {"ValueError"})
    THEN HTTPError(r, 400, e.msg)
    ELSE Uncaught(r)

\* The except clauses of AddressBookEntryRequestHandler.put
put_except(r, e) ==
    IF Caught(e, {"JSONDecodeError", "TypeError"})
    THEN HTTPError(r, 400, "Invalid JSON body")
    ELSE IF Caught(e, {"KeyError"})
    THEN HTTPError(r, 404, e.msg)
    ELSE IF Caught(e, {"ValueError"})
    THEN HTTPError(r, 400, e.msg)
    ELSE Uncaught(r)

\* Mutant: the identifier is looked up before the body is parsed.
Entry_put_LookupFirst(r, impl) ==
    LET found == get_address(PathId(r.path))
        addr  == parse_body(r.body)
        res   == put_address(PathId(r.path), addr, impl)
        look  == Call("get_address", <<>>)
    IN  IF found.exc # NoException
        THEN [resp |-> put_except(r, found), addrs |-> addrs,
              calls |-> <<look>>]
        ELSE IF addr.exc # NoException
        THEN [resp |-> put_except(r, addr), addrs |-> addrs,
              calls |-> <<look>>]
        ELSE IF res.exc # NoException
        THEN [resp |-> put_except(r, res), addrs |-> addrs,
              calls |-> <<look, Call("put_address", <<>>)>>]
        ELSE [resp  |-> Finish(204, <<>>, <<>>),
              addrs |-> res.addrs,
              calls |-> <<look, Call("put_address", <<>>)>>]

\* AddressBookEntryRequestHandler.put
Entry_put(r, impl) ==
    LET addr == parse_body(r.body)
        res  == put_address(PathId(r.path), addr, impl)
    IN  IF addr.exc # NoException
        THEN [resp |-> put_except(r, addr), addrs |-> addrs, calls |-> <<>>]
        ELSE IF res.exc # NoException
        THEN [resp |-> put_except(r, res), addrs |-> addrs,
              calls |-> <<Call("put_address", <<>>)>>]
        ELSE [resp  |-> Finish(204, <<>>, <<>>),
              addrs |-> res.addrs,
              calls |-> <<Call("put_address", <<>>)>>]

\* The except clause of AddressBookEntryRequestHandler.delete
delete_except(r, e) ==
    IF Caught(e, {"KeyError"})
    THEN HTTPError(r, 404, e.msg)
    ELSE Uncaught(r)

\* AddressBookEntryRequestHandler.delete
Entry_delete(r) ==
    LET res == delete_address(PathId(r.path))
    IN  IF res.exc # NoException
        THEN [resp |-> delete_except(r, res), addrs |-> addrs,
              calls |-> <<Call("delete_address", <<>>)>>]
        ELSE [resp  |-> Finish(204, <<>>, <<>>),
              addrs |-> res.addrs,
              calls |-> <<Call("delete_address", <<>>)>>]

\* Mutant: the HTTPError is raised without the configured reason.
Default_prepare_NoReason(r) ==
    [resp  |-> HTTPError(r, 404, "Not Found"),
     addrs |-> addrs,
     calls |-> <<>>]

\* DefaultRequestHandler.prepare, with the default_handler_args of the
\* application: it raises before any method is dispatched.
Default_prepare(r) ==
    [resp  |-> HTTPError(r, 404, "Unknown Endpoint"),
     addrs |-> addrs,
     calls |-> <<>>]

\* A method the matched handler class does not define: the framework's
\* own method raises HTTPError(405).
Undefined_method(r) ==
    [resp  |-> HTTPError(r, 405, StandardReason(405)),
     addrs |-> addrs,
     calls |-> <<>>]

----------------------------------------------------------------------------
(* Logging *)

\* BaseRequestHandler.prepare: the debug line of the request.
prepare(r) == [msg |-> "REQUEST", level |-> "debug", method |-> r.method]

\* Mutant: the first comparison is <= 400.
log_function_OffByOne(r, status_code) ==
    [msg    |-> "RESPOSE",
     level  |-> IF status_code <= 400 THEN "info"
                ELSE IF status_code < 500 THEN "warning"
                ELSE "error",
     method |-> r.method]

\* log_function: the access line, its severity chosen by the status.
log_function(r, status_code) ==
    [msg    |-> "RESPOSE",
     level  |-> IF status_code < 400 THEN "info"
                ELSE IF status_code < 500 THEN "warning"
                ELSE "error",
     method |-> r.method]

\* The lines one request emits: DefaultRequestHandler overrides prepare,
\* the framework calls log_function when the response is finished.
RequestLog(r, status_code) ==
    IF Route(r.path) = "DefaultRequestHandler"
    THEN <<log_function(r, status_code)>>
    ELSE <<prepare(r), log_function(r, status_code)>>

----------------------------------------------------------------------------
(* The state machine *)

NoRequest == [method |-> "", path |-> <<>>, body |-> ""]

\* Whether the handler r is dispatched to reads the body of r.
ReadsBody(r) ==
    \/ Route(r.path) = "AddressBookRequestHandler" /\ r.method = "POST"
    \/ Route(r.path) = "AddressBookEntryRequestHandler" /\ r.method = "PUT"

\* The requests with these methods and paths: a body of bodies where the
\* handler reads it, the empty body where it does not.
RequestsOver(methods, paths, bodies) ==
    {r \in [method : methods, path : paths, body : bodies \cup {B_EMPTY}] :
        ReadsBody(r) \/ r.body = B_EMPTY}

AllRequests == RequestsOver(Methods, AllPaths, FewBodies)

BookRequests == RequestsOver({"GET", "POST", "PUT", "DELETE"}, BookPaths, Bodies)

HealthRequests == RequestsOver({"GET"}, HealthPaths, {})

Without(f, id) == [k \in DOMAIN f \ {id} |-> f[k]]

\* The service is started with an empty collection; the application is
\* built with or without debug.
Init ==
    /\ addrs = EmptyDict
    /\ ready = TRUE
    /\ clock = 0
    /\ debug \in BOOLEAN
    /\ req = NoRequest
    /\ resp = NoResponse
    /\ log = <<>>
    /\ calls = <<>>
    /\ addrsBefore = EmptyDict
    /\ posted = EmptyDict
    /\ deleted = {}
    /\ lastUptime = -1
    /\ prevUptime = -1

\* The request r is answered as out says, and logged.
Respond(r, out) ==
    /\ req' = r
    /\ resp' = out.resp
    /\ addrs' = out.addrs
    /\ calls' = out.calls
    /\ addrsBefore' = addrs
    /\ log' = RequestLog(r, out.resp.status)
    /\ UNCHANGED <<ready, clock, debug>>

LivenessGet(R) ==
    \E r \in R :
        /\ Route(r.path) = "LivenessRequestHandler"
        /\ r.method = "GET"
        /\ Respond(r, Liveness_get(r))
        /\ lastUptime' = resp'.body[1].uptime
        /\ prevUptime' = lastUptime
        /\ UNCHANGED <<posted, deleted>>

ReadinessGet(R) ==
    \E r \in R :
        /\ Route(r.path) = "ReadinessRequestHandler"
        /\ r.method = "GET"
        /\ Respond(r, Readiness_get(r))
        /\ UNCHANGED <<posted, deleted, lastUptime, prevUptime>>

AddressBookGet(R) ==
    \E r \in R :
        /\ Route(r.path) = "AddressBookRequestHandler"
        /\ r.method = "GET"
        /\ Respond(r, AddressBook_get(r))
        /\ UNCHANGED <<posted, deleted, lastUptime, prevUptime>>

AddressBookPost(R) ==
    \E r \in R :
        /\ Route(r.path) = "AddressBookRequestHandler"
        /\ r.method = "POST"
        /\ \E newid \in Ids \ DOMAIN addrs :
              LET out == AddressBook_post(r, newid)
              IN  /\ Respond(r, out)
                  /\ IF out.resp.status = 201
                     THEN /\ posted' = (newid :> r.body) @@ posted
                          /\ deleted' = deleted \ {newid}
                     ELSE UNCHANGED <<posted, deleted>>
        /\ UNCHANGED <<lastUptime, prevUptime>>

AddressBookEntryGet(R) ==
    \E r \in R :
        /\ Route(r.path) = "AddressBookEntryRequestHandler"
        /\ r.method = "GET"
        /\ Respond(r, Entry_get(r))
        /\ UNCHANGED <<posted, deleted, lastUptime, prevUptime>>

AddressBookEntryPut(R) ==
    \E r \in R, impl \in ServiceImpls :
        /\ Route(r.path) = "AddressBookEntryRequestHandler"
        /\ r.method = "PUT"
        /\ Respond(r, Entry_put(r, impl))
        /\ posted' = Without(posted, PathId(r.path))
        /\ UNCHANGED <<deleted, lastUptime, prevUptime>>

AddressBookEntryDelete(R) ==
    \E r \in R :
        /\ Route(r.path) = "AddressBookEntryRequestHandler"
        /\ r.method = "DELETE"
        /\ LET out == Entry_delete(r)
           IN  /\ Respond(r, out)
               /\ deleted' = IF out.resp.status = 204
                             THEN deleted \cup {PathId(r.path)}
                             ELSE deleted
        /\ posted' = Without(posted, PathId(r.path))
        /\ UNCHANGED <<lastUptime, prevUptime>>

UndefinedMethod(R) ==
    \E r \in R :
        /\ Route(r.path) # "DefaultRequestHandler"
        /\ r.method \notin HandlerMethods(Route(r.path))
        /\ Respond(r, Undefined_method(r))
        /\ UNCHANGED <<posted, deleted, lastUptime, prevUptime>>

DefaultPrepare(R) ==
    \E r \in R :
        /\ Route(r.path) = "DefaultRequestHandler"
        /\ Respond(r, Default_prepare(r))
        /\ UNCHANGED <<posted, deleted, lastUptime, prevUptime>>

\* Time passes.
Tick ==
    /\ clock < MaxUptime
    /\ clock' = clock + 1
    /\ UNCHANGED <<addrs, ready, debug, req, resp, log, calls, addrsBefore,
                   posted, deleted, lastUptime, prevUptime>>

\* The collaborator becomes ready or stops being ready.
ReadinessChanges ==
    /\ ready' = ~ready
    /\ UNCHANGED <<addrs, clock, debug, req, resp, log, calls, addrsBefore,
                   posted, deleted, lastUptime, prevUptime>>

\* Every route, with few bodies, as the readiness changes.  No handler but
\* the liveness one reads the clock.
Next ==
    \/ LivenessGet(AllRequests)
    \/ ReadinessGet(AllRequests)
    \/ AddressBookGet(AllRequests)
    \/ AddressBookPost(AllRequests)
    \/ AddressBookEntryGet(AllRequests)
    \/ AddressBookEntryPut(AllRequests)
    \/ AddressBookEntryDelete(AllRequests)
    \/ UndefinedMethod(AllRequests)
    \/ DefaultPrepare(AllRequests)
    \/ ReadinessChanges

Spec == Init /\ [][Next]_vars

\* The address-book routes, every body.  Their handlers read neither the
\* clock nor the readiness, which the health handlers alone read.
NextBook ==
    \/ AddressBookGet(BookRequests)
    \/ AddressBookPost(BookRequests)
    \/ AddressBookEntryGet(BookRequests)
    \/ AddressBookEntryPut(BookRequests)
    \/ AddressBookEntryDelete(BookRequests)

SpecBook == Init /\ [][NextBook]_vars

\* The health routes, as time passes and the readiness changes.  Their
\* handlers read nothing of the collection.
NextHealth ==
    \/ LivenessGet(HealthRequests)
    \/ ReadinessGet(HealthRequests)
    \/ Tick
    \/ ReadinessChanges

SpecHealth == Init /\ [][NextHealth]_vars

----------------------------------------------------------------------------
(* Properties *)

Answered == req # NoRequest

\* The last request was dispatched to method of handler.
Dispatched(handler, method) ==
    /\ Answered
    /\ Route(req.path) = handler
    /\ req.method = method

IsSuccess(status_code) == status_code \in 200..299

EnvelopeFields == {"method", "uri", "code", "message"}

\* body is a JSON document of the error-envelope shape.
IsErrorEnvelope(body) ==
    /\ Len(body) = 1
    /\ DOMAIN body[1] \in {EnvelopeFields, EnvelopeFields \cup {"trace"}}

\* The body does not decode: not UTF-8, or not JSON.
Undecodable(body) == parse_body(body).exc # NoException

\* The body decodes to an entry the collaborator takes.
ValidEntry(body) == ~Undecodable(body) /\ valid_entry(parse_body(body))

\* C1: POST /addressbook with a valid JSON entry E is answered 201 with an
\* empty body and the Location /addressbook/{id} of the identifier
\* post_address returned; a later GET of an identifier created from E, with
\* no PUT or DELETE of it in between, is answered 200 with the entry E
\* decodes to.
C1_PostThenGetRoundTrip ==
    /\ (Dispatched("AddressBookRequestHandler", "POST") /\ ValidEntry(req.body))
       => /\ resp.status = 201
          /\ resp.body = <<>>
          /\ Len(calls) = 1
          /\ calls[1].op = "post_address"
          /\ Len(calls[1].ret) = 1
          /\ resp.location = <<"/", "addressbook", "/", calls[1].ret[1]>>
    /\ (Dispatched("AddressBookEntryRequestHandler", "GET")
            /\ PathId(req.path) \in DOMAIN posted)
       => /\ resp.status = 200
          /\ resp.body = <<json_loads(posted[PathId(req.path)]).value>>

\* An entry posted with insignificant white space has been read back.
C1_Witness ==
    /\ Dispatched("AddressBookEntryRequestHandler", "GET")
    /\ PathId(req.path) \in DOMAIN posted
    /\ posted[PathId(req.path)] = B_ANN_WS
    /\ resp.status = 200
    /\ resp.body = <<[name |-> "Ann"]>>

\* Bodies that are not UTF-8, not JSON, or JSON that is no object.
NotAJsonObject == {B_BADUTF8, B_EMPTY, B_BADJSON, B_LIST}

\* C2: POST /addressbook and PUT /addressbook/{id} with a body that is not
\* UTF-8, not JSON or not a JSON object are answered 400 with the message
\* "Invalid JSON body".
C2_InvalidBodyIs400InvalidJsonBody ==
    ((Dispatched("AddressBookRequestHandler", "POST")
        \/ Dispatched("AddressBookEntryRequestHandler", "PUT"))
     /\ req.body \in NotAJsonObject)
    => /\ resp.status = 400
       /\ resp.reason = "Invalid JSON body"
       /\ IsErrorEnvelope(resp.body)
       /\ resp.body[1].message = "Invalid JSON body"

\* The last request named an identifier the collection did not hold.
OnAbsentId(method) ==
    /\ Dispatched("AddressBookEntryRequestHandler", method)
    /\ PathId(req.path) \notin DOMAIN addrsBefore

\* C3 as claimed: GET, PUT and DELETE of an identifier the collection does
\* not hold are answered 404, whatever the body.
C3_AbsentIdIs404WhateverTheBody ==
    (OnAbsentId("GET") \/ OnAbsentId("PUT") \/ OnAbsentId("DELETE"))
    => resp.status = 404

\* C3 as amended: GET and DELETE of an identifier the collection does not
\* hold are answered 404 whatever the body; PUT of it is answered 404 when
\* its body is a valid entry and 400 when its body does not decode.
C3_AbsentIdIs404 ==
    /\ (OnAbsentId("GET") \/ OnAbsentId("DELETE")) => resp.status = 404
    /\ (OnAbsentId("PUT") /\ ValidEntry(req.body)) => resp.status = 404
    /\ (OnAbsentId("PUT") /\ Undecodable(req.body)) => resp.status = 400

\* A PUT of a valid entry to an identifier never created is answered 404.
C3_Witness ==
    /\ OnAbsentId("PUT")
    /\ req.body = B_BOB
    /\ PathId(req.path) = UnknownId
    /\ resp.status = 404
    /\ addrs # EmptyDict

\* C5: after a DELETE of an identifier answered 204, and until a request
\* creates the identifier again, a GET of it is answered 404.
C5_GetAfterDeleteIs404 ==
    (Dispatched("AddressBookEntryRequestHandler", "GET")
        /\ PathId(req.path) \in deleted)
    => resp.status = 404

\* A deleted identifier has been read while another entry is held.
C5_Witness ==
    /\ Dispatched("AddressBookEntryRequestHandler", "GET")
    /\ PathId(req.path) \in deleted
    /\ resp.status = 404
    /\ addrs # EmptyDict

\* The last response is the 503 of the readiness endpoint.
IsReadiness503 ==
    /\ Dispatched("ReadinessRequestHandler", "GET")
    /\ resp.status = 503

\* The last response is an error envelope whose code is the status, with a
\* trace only in debug mode.
HasErrorEnvelope ==
    /\ IsErrorEnvelope(resp.body)
    /\ resp.body[1].code = resp.status
    /\ "trace" \in DOMAIN resp.body[1] => debug

\* C4 as claimed: every response that is not 2xx, of any route, the
\* readiness endpoint included, has an error envelope as its body, its
\* code the status, with a trace only in debug mode.
C4_EveryNon2xxIsAnEnvelope ==
    (Answered /\ ~IsSuccess(resp.status)) => HasErrorEnvelope

\* C4 as amended: every response that is not 2xx, other than the 503 of
\* the readiness endpoint, has an error envelope as its body, its code the
\* status, with a trace only in debug mode.
C4_Non2xxButReadinessIsAnEnvelope ==
    (Answered /\ ~IsSuccess(resp.status) /\ ~IsReadiness503)
    => HasErrorEnvelope

\* In debug mode a handler's 400 carries an envelope with a trace.
C4_Witness ==
    /\ Dispatched("AddressBookRequestHandler", "POST")
    /\ resp.status = 400
    /\ debug
    /\ HasErrorEnvelope
    /\ "trace" \in DOMAIN resp.body[1]

\* C6: GET /readiness is answered 503 exactly when the snapshot status()
\* returned holds ready: false, else 200, and its body is that snapshot.
C6_ReadinessFollowsSnapshot ==
    Dispatched("ReadinessRequestHandler", "GET")
    => /\ Len(calls) = 1
       /\ calls[1].op = "status"
       /\ resp.status \in {200, 503}
       /\ resp.status = 503 <=> calls[1].ret[1].ready = FALSE
       /\ resp.body = calls[1].ret

\* The readiness endpoint has answered 503 with the snapshot.
C6_Witness ==
    /\ Dispatched("ReadinessRequestHandler", "GET")
    /\ resp.status = 503
    /\ resp.body = <<[ready |-> FALSE, name |-> "addrservice"]>>

\* C7: a request, of any method, whose path no route pattern matches is
\* answered 404 with the message "Unknown Endpoint" in the error envelope,
\* whatever its method, and no collaborator operation is invoked.
C7_UnmatchedPathIs404UnknownEndpoint ==
    (Answered /\ Route(req.path) = "DefaultRequestHandler")
    => /\ resp.status = 404
       /\ HasErrorEnvelope
       /\ resp.body[1].message = "Unknown Endpoint"
       /\ calls = <<>>

\* A method no handler defines, on an identifier outside [a-zA-Z0-9-]+.
C7_Witness ==
    /\ req.method = "PATCH"
    /\ req.path = <<"/", "addressbook", "/", "a_b">>
    /\ resp.status = 404
    /\ resp.body[1].message = "Unknown Endpoint"

AccessLines == SelectSeq(log, LAMBDA l : l.msg = "RESPOSE")

\* C9: every answered request, one the unmatched-route handler or an error
\* cut short included, emits exactly one access line, at info when the
\* status is below 400, at warning from 400 to 499, at error from 500.
C9_OneAccessLineBySeverity ==
    Answered
    => /\ Len(AccessLines) = 1
       /\ resp.status < 400 => AccessLines[1].level = "info"
       /\ resp.status \in 400..499 => AccessLines[1].level = "warning"
       /\ resp.status >= 500 => AccessLines[1].level = "error"

\* An unmatched route was logged once, at warning.
C9_Witness ==
    /\ Answered
    /\ Route(req.path) = "DefaultRequestHandler"
    /\ log = <<[msg |-> "RESPOSE", level |-> "warning", method |-> req.method]>>

\* C10: a request invokes at most one collaborator operation; a POST or
\* PUT whose body does not decode invokes none, is answered 400 and leaves
\* the collection as it found it.
C10_AtMostOneCallNoneOnBadBody ==
    /\ Len(calls) <= 1
    /\ ((Dispatched("AddressBookRequestHandler", "POST")
            \/ Dispatched("AddressBookEntryRequestHandler", "PUT"))
        /\ Undecodable(req.body))
       => /\ calls = <<>>
          /\ resp.status = 400
          /\ addrs = addrsBefore

\* A PUT that does not decode, to an identifier the collection holds.
C10_Witness ==
    /\ Dispatched("AddressBookEntryRequestHandler", "PUT")
    /\ Undecodable(req.body)
    /\ PathId(req.path) \in DOMAIN addrs
    /\ calls = <<>>
    /\ resp.status = 400

====
